---- MODULE Spec2Model ----
(***************************************************************************)
(* Chat session engine of the Ollama VS Code extension                     *)
(* (OllamaChatProvider, chatProvider) together with the streaming          *)
(* transport it drives (OllamaApi.streamChatCompletion).                   *)
(*                                                                         *)
(* The extension host is single-threaded: every action below is one        *)
(* macrotask (a webview message, the settlement of the HTTP request, one   *)
(* 'data' / 'end' / 'error' event of the response stream, a configuration  *)
(* change) run to completion, including the promise continuations it       *)
(* triggers.                                                               *)
(*                                                                         *)
(* Strings are sequences of characters; string concatenation is \o.        *)
(***************************************************************************)
EXTENDS Integers, Sequences, FiniteSets, TLC

\* ------------------------------------------------------------------ bounds
\* number of handleSendMessage calls that pass the empty-text check
MaxSends == 2
\* number of 'data' events one response stream emits
MaxChunks == 2
\* the values of the setting ollama.chat.maxHistory are 0..MaxBound
MaxBound == 1
\* number of lines in a response body of the stream-decoding specification
MaxLines == 2
\* number of pieces a raw completion text is put together from
MaxParts == 5
\* length of the cursor line of an inline-completion trigger
MaxLineLen == 3
\* number of lines of a document whose context is extracted
MaxDocLines == 13

Exchanges == 1..MaxSends

\* ------------------------------------------------------------------ inputs
\* texts typed into the chat box (data.message of a 'sendMessage' event)
Texts == { <<" ">>, <<" ", "a", " ">> }

\* content of the streamed message fragments
Tokens == { "x", "y" }

\* One line of the newline-delimited response body, as JSON.parse sees it:
\*   "ok"    {message:{content:<non-empty>}, done:false}
\*   "empty" {message:{content:""}, done:true}
\*   "nomsg" a JSON object without a message field
\*   "bad"   text that JSON.parse rejects
\*   "blank" a whitespace-only line (the text after the final newline)
Line(kind, content) == [kind |-> kind, content |-> content]

\* the chunks a 'data' event can carry: chunk.toString().split('\n')
Chunks == { <<Line("ok", <<"x">>), Line("bad", <<>>),
              Line("ok", <<"y">>), Line("blank", <<>>)>>,
            <<Line("empty", <<>>), Line("nomsg", <<>>), Line("blank", <<>>)>> }

\* `Error: ${error.message}`
ErrorText == <<"E">>

VARIABLES
    chatHistory,       \* OllamaChatProvider.chatHistory
    maxHistory,        \* OllamaChatProvider.maxHistory
    typing,            \* the typing indicator last posted to the webview
    nextEx,            \* number of handleSendMessage calls started so far
    pc,                \* where each handleSendMessage call / its stream is
    assistantMessage,  \* the local accumulator of each call
    messages,          \* the request.messages of each pending request
    delivered,         \* fragments the transport handed to onChunk, per call
    chunksSeen,        \* number of 'data' events per stream
    contended,         \* another call or a clear overlapped this call
    plain,             \* so far: no overlap, no clear, no change of the bound
    sinceClear,        \* the history was cleared and nothing was sent since
    wiped,             \* the history was cleared while this call was in flight
    shown,             \* the messages last posted to the webview
    posts,             \* number of updateWebview calls of the last step
    posted,            \* per call nothing has overlapped: the last turn of
                       \* the history its callback posted to the webview,
                       \* one entry per fragment
    \* one response stream seen byte by byte (specification StreamSpec)
    wireBody,          \* the bytes of the response body
    wirePos,           \* how many of them 'data' events have carried so far
    wireFrags,         \* the fragments handed to onChunk, in order
    wireState,         \* "idle", "open" or "ended"
    \* one call of processCompletion (specification ProcessSpec)
    procRaw,           \* the completion text returned by generateCompletion
    procPrefix,        \* the text of the cursor line before the cursor
    procOut,           \* what processCompletion returned, once it has
    \* one inline-completion trigger (specification CompletionSpec)
    isEnabled,         \* OllamaCompletionProvider.isEnabled
    curLine,           \* document.lineAt(position).text
    curChar,           \* position.character
    compPhase,         \* "idle", "requesting" or "returned"
    cancelRequested,   \* token.isCancellationRequested
    requested,         \* calls of generateCompletion so far
    reply,             \* "none", "ok" or "error": how the request ended
    compResult,        \* what provideInlineCompletionItems gave its caller
    \* one context extraction (specification ContextSpec)
    lineCount,         \* document.lineCount
    posLine,           \* position.line
    posChar,           \* position.character
    ctxPrompt,         \* the prompt of buildPrompt, once built
    ctxSuffix,         \* the text of getSuffix, once built
    ctxReads,          \* the line indices handed to document.lineAt
    \* the calls of the HTTP client (specification ApiSpec)
    apiReply,          \* how POST /api/generate ends
    genResult,         \* what generateCompletion gave its caller
    probeReply,        \* how GET /api/tags ends
    healthy,           \* what isHealthy gave its caller
    connected,         \* what checkOllamaConnection gave its caller
    \* the command manager and the setting (specification ToggleSpec)
    completionsEnabled, \* OllamaCommandManager.completionsEnabled
    configEnabled      \* the setting ollama.completions.enabled

chatVars == << chatHistory, maxHistory, typing, nextEx, pc, assistantMessage,
               messages, delivered, chunksSeen, contended, plain, sinceClear,
               wiped, shown, posts, posted >>

wireVars == << wireBody, wirePos, wireFrags, wireState >>

procVars == << procRaw, procPrefix, procOut >>

complVars == << isEnabled, curLine, curChar, compPhase, cancelRequested,
               requested, reply, compResult >>

ctxVars == << lineCount, posLine, posChar, ctxPrompt, ctxSuffix, ctxReads >>

\* what the chat session engine never touches
apiVars == << apiReply, genResult, probeReply, healthy, connected >>

cmdVars == << completionsEnabled, configEnabled >>

nonChat == << wireVars, procVars, complVars, ctxVars, apiVars, cmdVars >>

vars == << chatVars, nonChat >>

\* ----------------------------------------------------------- pure helpers
NL == "\n"

\* white space as String.prototype.trim sees it
IsSpace(c) == c \in { " ", NL }

RECURSIVE TrimStart(_)
TrimStart(s) ==
    IF s # <<>> /\ IsSpace(Head(s)) THEN TrimStart(Tail(s)) ELSE s

RECURSIVE TrimEnd(_)
TrimEnd(s) ==
    IF s # <<>> /\ IsSpace(s[Len(s)])
    THEN TrimEnd(SubSeq(s, 1, Len(s) - 1)) ELSE s

\* String.prototype.trim
Trim(s) == TrimEnd(TrimStart(s))

Max(a, b) == IF a > b THEN a ELSE b
Min(a, b) == IF a < b THEN a ELSE b

\* Array.prototype.slice(start): a negative start counts from the end,
\* and -0 is 0
Slice(arr, start) ==
    LET from == IF start < 0 THEN Max(Len(arr) + start, 0)
                ELSE Min(start, Len(arr))
    IN  SubSeq(arr, from + 1, Len(arr))

\* an OllamaMessage; ex is the identity of the object (the call that made it)
Msg(role, content, ex) == [role |-> role, content |-> content, ex |-> ex]

\* Array.prototype.pop
Pop(arr) == SubSeq(arr, 1, Len(arr) - 1)

\* this.chatHistory[this.chatHistory.length - 1].content = text
SetLastContent(hist, text) ==
    IF Len(hist) > 0
    THEN [hist EXCEPT ![Len(hist)].content = text]
    ELSE hist

\* addMessageToHistory
addMessageToHistory(hist, message, max) ==
    LET pushed == Append(hist, message)
    IN  IF Len(pushed) > max * 2
        THEN Slice(pushed, -(max * 2))
        ELSE pushed

\* ------------------------------------------------- the streaming callback
\* a callback that replaces the accumulated text by the newest fragment
AccumulateReplaces(acc, chunk) == chunk

\* assistantMessage += chunk
Accumulate(acc, chunk) == acc \o chunk

\* the turn a history ends with
NoTurn == [role |-> "none", content |-> <<>>, ex |-> 0]

LastTurn(hist) == IF hist = <<>> THEN NoTurn ELSE hist[Len(hist)]

\* a callback that does not tell the webview
NotifySkipped(log, hist) == log

\* updateWebview in the callback; log is the call's record of what it posted
Notify(log, hist) == Append(log, LastTurn(hist))

\* the onChunk callback of handleSendMessage; s carries the call's
\* accumulator (am), the history (hist), the transport's own record of
\* what it handed over (dl), the messages the webview shows (shown) and the
\* record of what the callback posted (log)
onChunk(s, chunk) ==
    LET am   == Accumulate(s.am, chunk)
        hist == SetLastContent(s.hist, am)
        log  == Notify(s.log, hist)
    IN  [s EXCEPT !.am = am, !.hist = hist, !.log = log,
                  !.shown = IF Len(log) > Len(s.log) THEN hist ELSE s.shown]

\* data.message && data.message.content
HasContent(line) == line.kind = "ok" /\ line.content # <<>>

\* the body of the 'data' listener: the loop over the non-blank lines of
\* one chunk; a line that JSON.parse rejects is skipped by the empty catch
RECURSIVE DataHandler(_, _)
DataHandler(lines, s) ==
    IF lines = <<>> THEN s
    ELSE LET line == Head(lines)
             next == IF line.kind = "blank" THEN s
                     ELSE IF line.kind = "bad" THEN s
                     ELSE IF HasContent(line)
                          THEN [onChunk(s, line.content)
                                  EXCEPT !.dl = Append(s.dl, line.content)]
                          ELSE s
         IN  DataHandler(Tail(lines), next)

RECURSIVE Concat(_)
Concat(ss) == IF ss = <<>> THEN <<>> ELSE Head(ss) \o Concat(Tail(ss))

\* ------------------------------------------------- the bytes of a stream
\* String.prototype.split(sep) on a separator of one character
RECURSIVE SplitOn(_, _)
SplitOn(s, sep) ==
    IF \E i \in 1..Len(s) : s[i] = sep
    THEN LET i == CHOOSE k \in 1..Len(s) :
                      s[k] = sep /\ \A j \in 1..(k - 1) : s[j] # sep
         IN  <<SubSeq(s, 1, i - 1)>> \o SplitOn(SubSeq(s, i + 1, Len(s)), sep)
    ELSE <<s>>

\* The response body in a reduced JSON: "{" c1 .. cn "}" stands for
\* {"message":{"role":"assistant","content":"c1..cn"},"done":false}, "0" for
\* a JSON value without a message field; JSON.parse skips the white space
\* around the value and rejects every other text.
ContentChars == { "x", "y" }

\* what the 'data' listener makes of one element of chunk.split('\n'):
\* the filter on line.trim(), then JSON.parse and the fields it reads
ParseLine(text) ==
    LET t == Trim(text)
    IN  IF t = <<>> THEN Line("blank", <<>>)
        ELSE IF t = <<"0">> THEN Line("nomsg", <<>>)
        ELSE IF /\ Len(t) >= 2
                /\ t[1] = "{"
                /\ t[Len(t)] = "}"
                /\ \A i \in 2..(Len(t) - 1) : t[i] \in ContentChars
             THEN IF Len(t) = 2 THEN Line("empty", <<>>)
                  ELSE Line("ok", SubSeq(t, 2, Len(t) - 1))
        ELSE Line("bad", <<>>)

\* chunk.toString().split('\n'), each element as the listener reads it
ChunkLines(chunk) ==
    LET texts == SplitOn(chunk, NL)
    IN  [i \in 1..Len(texts) |-> ParseLine(texts[i])]

\* what one 'data' event with these bytes hands to onChunk, after frags
HandleChunk(chunk, frags) ==
    DataHandler(ChunkLines(chunk),
                [am |-> <<>>, hist |-> <<>>, dl |-> frags]).dl

\* the lines a server writes, each followed by a newline: two fragments, an
\* empty fragment (the final "done" object), an object without a message, a
\* truncated object and an empty line
WireLines == { <<"{", "x", "}">>, <<"{", "y", "}">>, <<"{", "}">>, <<"0">>,
               <<"{", "x">>, <<>> }

RECURSIVE BodiesOf(_)
BodiesOf(n) ==
    IF n = 0 THEN { <<>> }
    ELSE LET shorter == BodiesOf(n - 1)
         IN  shorter \cup { b \o l \o <<NL>> : b \in shorter, l \in WireLines }

Bodies == BodiesOf(MaxLines)

WireIdle ==
    /\ wireBody = <<>>
    /\ wirePos = 0
    /\ wireFrags = <<>>
    /\ wireState = "idle"

\* ------------------------------------------- post-processing a completion
\* a missing response field: undefined
Undefined == << "undefined" >>

\* !completion
Falsy(text) == text = Undefined \/ text = <<>>

\* the backtick character
Tick == "tick"

\* \w of the regular expressions, over the characters in use
IsWordChar(c) == c \in { "r", "x" }

\* the number of word characters text has from position i (1-based) on
RECURSIVE WordRun(_, _)
WordRun(text, i) ==
    IF i <= Len(text) /\ IsWordChar(text[i]) THEN 1 + WordRun(text, i + 1)
    ELSE 0

\* processed.replace(/^FENCE[\w]*\n?/, ""), FENCE being three backticks
StripOpenFence(text) ==
    IF Len(text) >= 3 /\ \A i \in 1..3 : text[i] = Tick
    THEN LET tag == WordRun(text, 4)
             nl  == IF 3 + tag < Len(text) /\ text[4 + tag] = NL THEN 1 ELSE 0
         IN  SubSeq(text, 4 + tag + nl, Len(text))
    ELSE text

\* processed.replace(/\n?FENCE$/, "")
StripCloseFence(text) ==
    LET n == Len(text)
    IN  IF n >= 3 /\ \A i \in (n - 2)..n : text[i] = Tick
        THEN IF n >= 4 /\ text[n - 3] = NL
             THEN SubSeq(text, 1, n - 4)
             ELSE SubSeq(text, 1, n - 3)
        ELSE text

\* Array.prototype.join(sep)
RECURSIVE JoinWith(_, _)
JoinWith(parts, sep) ==
    IF parts = <<>> THEN <<>>
    ELSE IF Len(parts) = 1 THEN parts[1]
    ELSE parts[1] \o <<sep>> \o JoinWith(Tail(parts), sep)

\* String.prototype.indexOf(c), 0-based, -1 when absent
IndexOf(text, c) ==
    IF \E i \in 1..Len(text) : text[i] = c
    THEN (CHOOSE k \in 1..Len(text) :
              text[k] = c /\ \A j \in 1..(k - 1) : text[j] # c) - 1
    ELSE -1

\* a first line left with its leading white space
KeepFirstLine(line) == line

\* line.trimStart() on the first line
CleanFirstLine(line) == TrimStart(line)

\* lines.map((line, index) => index === 0 ? line.trimStart() : line)
CleanLines(lines) ==
    [i \in 1..Len(lines) |-> IF i = 1 THEN CleanFirstLine(lines[i])
                             ELSE lines[i]]

\* the cut at the first line end
LimitToFirstLine(text) ==
    LET firstLineEnd == IndexOf(text, NL)
    IN  IF firstLineEnd # -1 THEN SubSeq(text, 1, firstLineEnd) ELSE text

\* a completion passed on although it repeats the typed text
KeepEcho(processed, linePrefix) == processed

\* the guard against a completion that repeats what is already there
SuppressEcho(processed, linePrefix) ==
    IF Trim(processed) = Trim(linePrefix) THEN <<>> ELSE processed

\* processCompletion; linePrefix is
\* document.lineAt(position).text.substring(0, position.character)
processCompletion(completion, linePrefix) ==
    IF Falsy(completion) THEN <<>>
    ELSE LET trimmed  == Trim(completion)
             unfenced == StripCloseFence(StripOpenFence(trimmed))
             cleaned  == JoinWith(CleanLines(SplitOn(unfenced, NL)), NL)
         IN  SuppressEcho(LimitToFirstLine(cleaned), linePrefix)

\* raw completion texts: up to n pieces, each a fence, a letter, a blank or
\* a line end
RawParts == { <<Tick, Tick, Tick>>, <<"r">>, <<"x">>, <<" ">>, <<NL>> }

RECURSIVE RawsOf(_)
RawsOf(n) ==
    IF n = 0 THEN { <<>> }
    ELSE LET shorter == RawsOf(n - 1)
         IN  shorter \cup { t \o q : t \in shorter, q \in RawParts }

Raws == RawsOf(MaxParts) \cup { Undefined }

\* the typed text before the cursor; the caller has checked it is not blank
Prefixes == { <<" ", "r", " ">>, <<"r", " ", "x">> }

\* processCompletion has not been called / has not returned
Pending == << "pending" >>

ProcIdle ==
    /\ procRaw = <<>>
    /\ procPrefix = <<>>
    /\ procOut = Pending

\* --------------------------------------------- one inline-completion trigger
\* the characters of a cursor line: a letter, a blank, a separator
LineChars == { "r", " ", "(" }

RECURSIVE LinesOf(_)
LinesOf(n) ==
    IF n = 0 THEN { <<>> }
    ELSE LET shorter == LinesOf(n - 1)
         IN  shorter \cup { t \o <<c>> : t \in shorter, c \in LineChars }

LineTexts == LinesOf(MaxLineLen)

\* what generateCompletion resolves with
CompletionTexts == { Undefined, <<" ">>, <<"x">>, <<"(">> }

\* the number of word characters of line that end at index i (1-based)
RECURSIVE WordRunBack(_, _)
WordRunBack(line, i) ==
    IF i >= 1 /\ IsWordChar(line[i]) THEN 1 + WordRunBack(line, i - 1)
    ELSE 0

\* document.getWordRangeAtPosition(position): the start character of the
\* word that holds or touches the cursor, -1 when there is none
WordStart(line, character) ==
    IF character > 0 /\ IsWordChar(line[character])
    THEN character - WordRunBack(line, character)
    ELSE IF character < Len(line) /\ IsWordChar(line[character + 1])
    THEN character
    ELSE -1

\* the early returns without the word check
SkipsWhenBlank(enabled, line, character) ==
    \/ ~enabled
    \/ Len(Trim(SubSeq(line, 1, character))) = 0

\* the early returns of provideInlineCompletionItems
SkipsTrigger(enabled, line, character) ==
    \/ ~enabled
    \/ /\ WordStart(line, character) # -1
       /\ WordStart(line, character) < character
    \/ Len(Trim(SubSeq(line, 1, character))) = 0

\* return null
NullResult == << "null" >>

\* return [new vscode.InlineCompletionItem(completion,
\*             new vscode.Range(position, position))]:
\* the text, then the start and the end character of the range
Item(text, position) == << "item", text, position, position >>

\* an error leaving the function
Thrown == << "thrown" >>

\* the catch of getCompletion: the outcome of getCompletion on a failure
getCompletionCatch(cancelled) ==
    IF cancelled THEN NullResult ELSE Thrown

\* a catch that passes the error on
PropagateError(outcome) == outcome

\* the catch of provideInlineCompletionItems
provideCatch(outcome) == NullResult

\* a return that wraps whatever getCompletion gave
ReturnItemAlways(completion, position) == Item(completion, position)

\* the try block of provideInlineCompletionItems after getCompletion
\* returned completion
provideReturn(completion, position) ==
    IF Falsy(completion) \/ Len(Trim(completion)) = 0 THEN NullResult
    ELSE Item(completion, position)

\* provideInlineCompletionItems after getCompletion failed in the transport
provideAfterFailure(cancelled, position) ==
    LET outcome == getCompletionCatch(cancelled)
    IN  IF outcome = Thrown THEN provideCatch(outcome)
        ELSE provideReturn(<<>>, position)

ComplIdle ==
    /\ isEnabled = TRUE
    /\ curLine = <<>>
    /\ curChar = 0
    /\ compPhase = "idle"
    /\ cancelRequested = FALSE
    /\ requested = 0
    /\ reply = "none"
    /\ compResult = Pending

\* ------------------------------------------------ the context of a trigger
\* lines of context before and after the cursor line, lines of suffix
ContextBefore == 10
ContextAfter == 5
SuffixAfter == 3

\* the characters of a document: every one occurs once, so that a
\* character of a window tells where in the document it came from
Upper == << "A", "B", "C", "D", "E", "F", "G", "H", "I", "J",
            "K", "L", "M", "N", "O", "P", "Q", "R", "S", "T" >>
Lower == << "a", "b", "c", "d", "e", "f", "g", "h", "i", "j",
            "k", "l", "m", "n", "o", "p", "q", "r", "s", "t" >>

\* document.lineAt(i).text, i counted from 0
DocLine(i) == << Upper[i + 1], Lower[i + 1] >>

\* startLine of getContextLines
ContextStart(line) == Max(0, line - ContextBefore)

\* an end line that is not capped at the last line
ContextEndUncapped(count, line) == line + ContextAfter

\* endLine of getContextLines
ContextEnd(count, line) == Min(count - 1, line + ContextAfter)

\* getContextLines
getContextLines(count, line, character) ==
    LET startLine == ContextStart(line)
        endLine   == ContextEnd(count, line)
    IN  [k \in 1..(endLine - startLine + 1) |->
            LET i == startLine + k - 1
            IN  IF i = line THEN SubSeq(DocLine(i), 1, character)
                ELSE DocLine(i)]

\* the line indices getContextLines hands to lineAt
ContextReads(count, line) ==
    ContextStart(line)..ContextEnd(count, line)

\* the fixed text of the prompt before and after the code context
PromptHead == << "head" >>
PromptFoot == << "foot" >>

\* buildPrompt
buildPrompt(contextLines) ==
    PromptHead \o JoinWith(contextLines, NL) \o PromptFoot

\* the cursor line taken whole
WholeLine(text, character) == text

\* currentLine.text.substring(position.character)
SuffixOnLine(text, character) == SubSeq(text, character + 1, Len(text))

\* getSuffix
getSuffix(count, line, character) ==
    LET suffixOnLine == SuffixOnLine(DocLine(line), character)
        maxLines == Min(count - 1, line + SuffixAfter)
        lines == [k \in 1..(1 + Max(0, maxLines - line)) |->
                     IF k = 1 THEN suffixOnLine ELSE DocLine(line + k - 1)]
    IN  Trim(JoinWith(lines, NL))

\* the line indices getSuffix hands to lineAt
SuffixReads(count, line) ==
    line..Min(count - 1, line + SuffixAfter)

CtxIdle ==
    /\ lineCount = 1
    /\ posLine = 0
    /\ posChar = 0
    /\ ctxPrompt = Pending
    /\ ctxSuffix = Pending
    /\ ctxReads = {}

\* ------------------------------------------------------- the HTTP client
\* the text of the response field of a reply
ResponseTexts == { <<>>, <<"x">> }

\* how axios.post ends: rejected (connection refused, timeout, a status
\* outside 2xx), or resolved with a body: a JSON object with a response
\* field, a JSON object without one, text that is not JSON, or null
Rejections == { <<"refused">>, <<"timeout">>, <<"status">> }

Replies ==
    Rejections
        \cup { <<"object", text>> : text \in ResponseTexts }
        \cup { <<"object">>, <<"text">>, <<"null">> }

\* return value
Return(value) == << "return", value >>

\* throw new Error(`...: ${error}`)
Throw(cause) == << "throw", cause >>

\* response.data.response
ResponseField(outcome) ==
    IF outcome[1] = "null" THEN Throw(<<"TypeError">>)
    ELSE IF outcome[1] = "object" /\ Len(outcome) = 2 THEN Return(outcome[2])
    ELSE Return(Undefined)

\* generateCompletion
generateCompletion(outcome) ==
    IF outcome \in Rejections THEN Throw(outcome)
    ELSE LET field == ResponseField(outcome)
         IN  IF field[1] = "throw" THEN Throw(field[2]) ELSE field

\* how axios.get of the probe ends
ProbeOutcomes == { "ok", "refused", "timeout", "status" }

\* a catch that passes the error on
RethrowProbe(outcome) == "thrown"

\* the catch of isHealthy
isHealthyCatch(outcome) == "false"

\* isHealthy
isHealthy(outcome) ==
    IF outcome = "ok" THEN "true" ELSE isHealthyCatch(outcome)

\* checkOllamaConnection
checkOllamaConnection(outcome) ==
    LET result == isHealthy(outcome)
    IN  IF result = "thrown" THEN "false" ELSE result

\* the command manager as the constructor leaves it with the default setting
CmdIdle ==
    /\ completionsEnabled = TRUE
    /\ configEnabled = TRUE

ApiIdle ==
    /\ apiReply = <<"refused">>
    /\ genResult = Pending
    /\ probeReply = "ok"
    /\ healthy = "pending"
    /\ connected = "pending"

\* ------------------------------------------------------------------ state
\* the call has not returned, or its response stream is still open
InFlight(e) == pc[e] \in {"connecting", "streaming"}

Live == { e \in Exchanges : InFlight(e) }

\* the promise of streamChatCompletion has resolved
Resolved(e) == pc[e] \in {"streaming", "ended", "broken"}

\* the chat session engine right after construction, bound 0
ChatIdle ==
    /\ chatHistory = <<>>
    /\ maxHistory = 0
    /\ typing = FALSE
    /\ nextEx = 0
    /\ pc = [e \in Exchanges |-> "new"]
    /\ assistantMessage = [e \in Exchanges |-> <<>>]
    /\ messages = [e \in Exchanges |-> <<>>]
    /\ delivered = [e \in Exchanges |-> <<>>]
    /\ chunksSeen = [e \in Exchanges |-> 0]
    /\ contended = [e \in Exchanges |-> FALSE]
    /\ plain = TRUE
    /\ sinceClear = FALSE
    /\ wiped = [e \in Exchanges |-> FALSE]
    /\ shown = <<>>
    /\ posts = 0
    /\ posted = [e \in Exchanges |-> <<>>]

Init ==
    /\ chatHistory = <<>>
    /\ maxHistory \in 0..MaxBound
    /\ typing = FALSE
    /\ nextEx = 0
    /\ pc = [e \in Exchanges |-> "new"]
    /\ assistantMessage = [e \in Exchanges |-> <<>>]
    /\ messages = [e \in Exchanges |-> <<>>]
    /\ delivered = [e \in Exchanges |-> <<>>]
    /\ chunksSeen = [e \in Exchanges |-> 0]
    /\ contended = [e \in Exchanges |-> FALSE]
    /\ plain = TRUE
    /\ sinceClear = FALSE
    /\ wiped = [e \in Exchanges |-> FALSE]
    /\ shown = <<>>
    /\ posts = 0
    /\ posted = [e \in Exchanges |-> <<>>]
    /\ WireIdle
    /\ ProcIdle
    /\ ComplIdle
    /\ CtxIdle
    /\ ApiIdle
    /\ CmdIdle

\* ---------------------------------------------------------------- actions
\* a check that lets white space through
IsEmptyUntrimmed(text) == text = <<>>

\* !userMessage.trim()
IsEmptyText(text) == Trim(text) = <<>>

\* handleSendMessage with an empty or whitespace-only text: the early return
SendEmpty(text) ==
    /\ IsEmptyText(text)
    /\ posts' = 0
    /\ UNCHANGED nonChat
    /\ UNCHANGED << chatHistory, maxHistory, typing, nextEx, pc,
                    assistantMessage, messages, delivered, chunksSeen,
                    contended, plain, sinceClear, wiped, shown, posted >>

\* a message list copied after the assistant placeholder was appended
SnapshotLate(withUser, withBoth) == withBoth

\* const messages = [...this.chatHistory]: the copy is taken after the user
\* turn is appended and before the assistant placeholder is
Snapshot(withUser, withBoth) == withUser

\* handleSendMessage up to its await: the user turn, the typing indicator,
\* the snapshot for the request, the assistant placeholder, the HTTP request
Send(text) ==
    /\ ~IsEmptyText(text)
    /\ nextEx < MaxSends
    /\ LET e == nextEx + 1
           withUser == addMessageToHistory(
                           chatHistory, Msg("user", Trim(text), e), maxHistory)
           withBoth == addMessageToHistory(
                           withUser, Msg("assistant", <<>>, e), maxHistory)
       IN  /\ nextEx' = e
           /\ messages' = [messages EXCEPT ![e] = Snapshot(withUser, withBoth)]
           /\ chatHistory' = withBoth
           /\ shown' = withUser
           /\ posts' = 1
           /\ typing' = TRUE
           /\ pc' = [pc EXCEPT ![e] = "connecting"]
           /\ contended' = [x \in Exchanges |->
                               IF x = e THEN Live # {}
                               ELSE contended[x] \/ InFlight(x)]
           /\ plain' = (plain /\ Live = {})
           /\ sinceClear' = FALSE
           /\ posted' = [x \in Exchanges |-> <<>>]
    /\ UNCHANGED nonChat
    /\ UNCHANGED << maxHistory, assistantMessage, delivered, chunksSeen,
                    wiped >>

\* a handler that leaves the typing indicator as it is
TypingLeftOn(flag) == flag

\* hideTypingIndicator, after the try/catch of handleSendMessage
HideTyping(flag) == FALSE

\* axios.post resolves with the response stream: streamChatCompletion
\* registers its listeners and returns, and handleSendMessage runs on past
\* its await: the final content, hideTypingIndicator, updateWebview.
\* The request has been sent; its message list is dropped.
ConnectOk(e) ==
    /\ pc[e] = "connecting"
    /\ chatHistory' = SetLastContent(chatHistory, assistantMessage[e])
    /\ shown' = chatHistory'
    /\ posts' = 1
    /\ typing' = HideTyping(typing)
    /\ pc' = [pc EXCEPT ![e] = "streaming"]
    /\ messages' = [messages EXCEPT ![e] = <<>>]
    /\ UNCHANGED nonChat
    /\ UNCHANGED << maxHistory, nextEx, assistantMessage, delivered,
                    chunksSeen, contended, plain, sinceClear, wiped, posted >>

\* a catch block that removes the trailing assistant turn and reports the
\* error outside the history
PopOnly(hist, e, max) ==
    IF Len(hist) > 0 /\ hist[Len(hist)].role = "assistant"
    THEN Pop(hist) ELSE hist

\* the catch block of handleSendMessage
CatchError(hist, e, max) ==
    LET popped == IF Len(hist) > 0 /\ hist[Len(hist)].role = "assistant"
                  THEN Pop(hist) ELSE hist
    IN  addMessageToHistory(popped, Msg("assistant", ErrorText, e), max)

\* axios.post rejects (connection refused, timeout, non-2xx status):
\* streamChatCompletion throws and handleSendMessage runs its catch block,
\* hideTypingIndicator and updateWebview
ConnectFail(e) ==
    /\ pc[e] = "connecting"
    /\ chatHistory' = CatchError(chatHistory, e, maxHistory)
    /\ shown' = chatHistory'
    /\ posts' = 1
    /\ typing' = HideTyping(typing)
    /\ pc' = [pc EXCEPT ![e] = "failed"]
    /\ messages' = [messages EXCEPT ![e] = <<>>]
    /\ wiped' = [wiped EXCEPT ![e] = FALSE]
    /\ UNCHANGED nonChat
    /\ UNCHANGED << maxHistory, nextEx, assistantMessage, delivered,
                    chunksSeen, contended, plain, sinceClear, posted >>

\* one 'data' event of the response stream
Data(e, chunk) ==
    /\ pc[e] = "streaming"
    /\ chunksSeen[e] < MaxChunks
    /\ LET out == DataHandler(chunk, [am |-> assistantMessage[e],
                                      hist |-> chatHistory,
                                      dl |-> delivered[e],
                                      shown |-> shown,
                                      log |-> posted[e]])
       IN  /\ assistantMessage' = [assistantMessage EXCEPT ![e] = out.am]
           /\ chatHistory' = out.hist
           /\ delivered' = [delivered EXCEPT ![e] = out.dl]
           /\ shown' = out.shown
           /\ posted' = [posted EXCEPT ![e] =
                             IF contended[e] THEN <<>> ELSE out.log]
           /\ posts' = Len(out.log) - Len(posted[e])
    /\ chunksSeen' = [chunksSeen EXCEPT ![e] = @ + 1]
    /\ UNCHANGED nonChat
    /\ UNCHANGED << maxHistory, typing, nextEx, pc, messages, contended,
                    plain, sinceClear, wiped >>

\* the 'end' event: the listener does nothing; the stream is over and the
\* locals of the call are out of reach
End(e) ==
    /\ pc[e] = "streaming"
    /\ pc' = [pc EXCEPT ![e] = "ended"]
    /\ assistantMessage' = [assistantMessage EXCEPT ![e] = <<>>]
    /\ delivered' = [delivered EXCEPT ![e] = <<>>]
    /\ chunksSeen' = [chunksSeen EXCEPT ![e] = 0]
    /\ wiped' = [wiped EXCEPT ![e] = FALSE]
    /\ posted' = [posted EXCEPT ![e] = <<>>]
    /\ posts' = 0
    /\ UNCHANGED nonChat
    /\ UNCHANGED << chatHistory, maxHistory, typing, nextEx, messages,
                    contended, plain, sinceClear, shown >>

\* the 'error' event of the response stream (connection lost mid-stream):
\* no listener is registered for it and the promise has already resolved,
\* so neither the catch block nor any other code of the provider runs
StreamError(e) ==
    /\ pc[e] = "streaming"
    /\ pc' = [pc EXCEPT ![e] = "broken"]
    /\ assistantMessage' = [assistantMessage EXCEPT ![e] = <<>>]
    /\ delivered' = [delivered EXCEPT ![e] = <<>>]
    /\ chunksSeen' = [chunksSeen EXCEPT ![e] = 0]
    /\ wiped' = [wiped EXCEPT ![e] = FALSE]
    /\ posted' = [posted EXCEPT ![e] = <<>>]
    /\ posts' = 0
    /\ UNCHANGED nonChat
    /\ UNCHANGED << chatHistory, maxHistory, typing, nextEx, messages,
                    contended, plain, sinceClear, shown >>

\* a notification sent before the history is reset
PostBeforeClear(before, after) == before

\* this.chatHistory = []; this.updateWebview(): what the webview is sent
PostAfterClear(before, after) == after

\* clearChat
ClearChat ==
    /\ chatHistory' = <<>>
    /\ shown' = PostAfterClear(chatHistory, chatHistory')
    /\ posts' = 1
    /\ contended' = [x \in Exchanges |-> contended[x] \/ InFlight(x)]
    /\ plain' = FALSE
    /\ sinceClear' = TRUE
    /\ wiped' = [x \in Exchanges |-> wiped[x] \/ InFlight(x)]
    /\ posted' = [x \in Exchanges |-> <<>>]
    /\ UNCHANGED nonChat
    /\ UNCHANGED << maxHistory, typing, nextEx, pc, assistantMessage,
                    messages, delivered, chunksSeen >>

\* a change of the bound that cuts the history down at once
TrimOnConfig(hist, max) ==
    IF Len(hist) > max * 2 THEN Slice(hist, -(max * 2)) ELSE hist

\* updateConfig reads the new bound and leaves the history alone
HistoryAfterConfig(hist, max) == hist

\* updateConfig, on a change of the ollama settings
UpdateConfig(b) ==
    /\ maxHistory' = b
    /\ chatHistory' = HistoryAfterConfig(chatHistory, b)
    /\ plain' = (plain /\ b = maxHistory)
    /\ posts' = 0
    /\ UNCHANGED nonChat
    /\ UNCHANGED << typing, nextEx, pc, assistantMessage,
                    messages, delivered, chunksSeen, contended, sinceClear,
                    wiped, shown, posted >>

Next ==
    \/ \E text \in Texts : SendEmpty(text)
    \/ \E text \in Texts : Send(text)
    \/ \E e \in Exchanges : ConnectOk(e)
    \/ \E e \in Exchanges : ConnectFail(e)
    \/ \E e \in Exchanges, chunk \in Chunks : Data(e, chunk)
    \/ \E e \in Exchanges : End(e)
    \/ \E e \in Exchanges : StreamError(e)
    \/ ClearChat
    \/ \E b \in 0..MaxBound : UpdateConfig(b)

Spec == Init /\ [][Next]_vars

\* The request has a timeout, so the promise of axios.post settles; an open
\* response stream ends or breaks.
Fairness ==
    \A e \in Exchanges :
        /\ WF_vars(ConnectOk(e) \/ ConnectFail(e))
        /\ WF_vars(End(e) \/ StreamError(e))

\* the 'data' event of the liveness specification, which follows streams
\* of one event fewer
LiveData(e, chunk) ==
    /\ chunksSeen[e] < MaxChunks - 1
    /\ Data(e, chunk)

LiveNext ==
    \/ \E text \in Texts : SendEmpty(text)
    \/ \E text \in Texts : Send(text)
    \/ \E e \in Exchanges : ConnectOk(e)
    \/ \E e \in Exchanges : ConnectFail(e)
    \/ \E e \in Exchanges, chunk \in Chunks : LiveData(e, chunk)
    \/ \E e \in Exchanges : End(e)
    \/ \E e \in Exchanges : StreamError(e)
    \/ ClearChat
    \/ \E b \in 0..MaxBound : UpdateConfig(b)

LiveSpec == Init /\ [][LiveNext]_vars /\ Fairness

\* ------------------------------------- specification of stream decoding
\* one response stream of streamChatCompletion, its body cut into 'data'
\* events at arbitrary bytes; onChunk only records what it is given
StreamInit ==
    /\ ChatIdle
    /\ ProcIdle
    /\ ComplIdle
    /\ CtxIdle
    /\ ApiIdle
    /\ CmdIdle
    /\ wireBody \in Bodies
    /\ wirePos = 0
    /\ wireFrags = <<>>
    /\ wireState = "open"

\* a 'data' event carrying the next bytes of the body, one or more
WireData ==
    /\ wireState = "open"
    /\ \E n \in 1..(Len(wireBody) - wirePos) :
          /\ wireFrags' = HandleChunk(
                              SubSeq(wireBody, wirePos + 1, wirePos + n),
                              wireFrags)
          /\ wirePos' = wirePos + n
    /\ UNCHANGED << wireBody, wireState >>
    /\ UNCHANGED << chatVars, procVars, complVars, ctxVars, apiVars, cmdVars >>

\* the 'end' event, once the whole body has arrived
WireEnd ==
    /\ wireState = "open"
    /\ wirePos = Len(wireBody)
    /\ wireState' = "ended"
    /\ UNCHANGED << wireBody, wirePos, wireFrags >>
    /\ UNCHANGED << chatVars, procVars, complVars, ctxVars, apiVars, cmdVars >>

StreamNext ==
    \/ WireData
    \/ WireEnd

StreamSpec == StreamInit /\ [][StreamNext]_vars

\* ---------------------------------- specification of processCompletion
ProcessInit ==
    /\ ChatIdle
    /\ WireIdle
    /\ ComplIdle
    /\ CtxIdle
    /\ ApiIdle
    /\ CmdIdle
    /\ procRaw \in Raws
    /\ procPrefix \in Prefixes
    /\ procOut = Pending

\* the call of processCompletion in getCompletion
Process ==
    /\ procOut = Pending
    /\ procOut' = processCompletion(procRaw, procPrefix)
    /\ UNCHANGED << procRaw, procPrefix >>
    /\ UNCHANGED << chatVars, wireVars, complVars, ctxVars, apiVars, cmdVars >>

ProcessNext == Process

ProcessSpec == ProcessInit /\ [][ProcessNext]_vars

\* ------------------------------ specification of one completion trigger
CompletionInit ==
    /\ ChatIdle
    /\ WireIdle
    /\ ProcIdle
    /\ CtxIdle
    /\ ApiIdle
    /\ CmdIdle
    /\ isEnabled \in BOOLEAN
    /\ curLine = <<>>
    /\ curChar = 0
    /\ compPhase = "idle"
    /\ cancelRequested = FALSE
    /\ requested = 0
    /\ reply = "none"
    /\ compResult = Pending

\* setEnabled, and updateConfig on a configuration change
SetEnabled(enabled) ==
    /\ isEnabled' = enabled
    /\ UNCHANGED << curLine, curChar, compPhase, cancelRequested, requested,
                    reply, compResult >>
    /\ UNCHANGED << chatVars, wireVars, procVars, ctxVars, apiVars, cmdVars >>

\* provideInlineCompletionItems up to its first await: the early returns,
\* or the request of getCompletion
Trigger(line, character) ==
    /\ compPhase = "idle"
    /\ curLine' = line
    /\ curChar' = character
    /\ IF SkipsTrigger(isEnabled, line, character)
       THEN /\ compPhase' = "returned"
            /\ compResult' = NullResult
            /\ requested' = requested
       ELSE /\ compPhase' = "requesting"
            /\ compResult' = Pending
            /\ requested' = requested + 1
    /\ UNCHANGED << isEnabled, cancelRequested, reply >>
    /\ UNCHANGED << chatVars, wireVars, procVars, ctxVars, apiVars, cmdVars >>

\* the editor cancels the token while the request is out
Cancel ==
    /\ compPhase = "requesting"
    /\ ~cancelRequested
    /\ cancelRequested' = TRUE
    /\ UNCHANGED << isEnabled, curLine, curChar, compPhase, requested, reply,
                    compResult >>
    /\ UNCHANGED << chatVars, wireVars, procVars, ctxVars, apiVars, cmdVars >>

\* generateCompletion resolves: post-processing and the return
Respond(raw) ==
    /\ compPhase = "requesting"
    /\ reply' = "ok"
    /\ compPhase' = "returned"
    /\ compResult' = provideReturn(
                         processCompletion(raw, SubSeq(curLine, 1, curChar)),
                         curChar)
    /\ UNCHANGED << isEnabled, curLine, curChar, cancelRequested, requested >>
    /\ UNCHANGED << chatVars, wireVars, procVars, ctxVars, apiVars, cmdVars >>

\* generateCompletion rejects: the two catch blocks
Fail ==
    /\ compPhase = "requesting"
    /\ reply' = "error"
    /\ compPhase' = "returned"
    /\ compResult' = provideAfterFailure(cancelRequested, curChar)
    /\ UNCHANGED << isEnabled, curLine, curChar, cancelRequested, requested >>
    /\ UNCHANGED << chatVars, wireVars, procVars, ctxVars, apiVars, cmdVars >>

CompletionNext ==
    \/ \E enabled \in BOOLEAN : SetEnabled(enabled)
    \/ \E line \in LineTexts : \E character \in 0..Len(line) :
           Trigger(line, character)
    \/ Cancel
    \/ \E raw \in CompletionTexts : Respond(raw)
    \/ Fail

CompletionSpec == CompletionInit /\ [][CompletionNext]_vars

\* ------------------------------------ specification of context extraction
ContextInit ==
    /\ ChatIdle
    /\ WireIdle
    /\ ProcIdle
    /\ ComplIdle
    /\ ApiIdle
    /\ CmdIdle
    /\ lineCount \in 1..MaxDocLines
    /\ posLine \in 0..(lineCount - 1)
    /\ posChar \in 0..Len(DocLine(posLine))
    /\ ctxPrompt = Pending
    /\ ctxSuffix = Pending
    /\ ctxReads = {}

\* getCompletion: getContextLines, buildPrompt and getSuffix
Extract ==
    /\ ctxPrompt = Pending
    /\ ctxPrompt' = buildPrompt(getContextLines(lineCount, posLine, posChar))
    /\ ctxSuffix' = getSuffix(lineCount, posLine, posChar)
    /\ ctxReads' = ContextReads(lineCount, posLine)
                       \cup SuffixReads(lineCount, posLine)
    /\ UNCHANGED << lineCount, posLine, posChar >>
    /\ UNCHANGED << chatVars, wireVars, procVars, complVars, apiVars, cmdVars >>

ContextNext == Extract

ContextSpec == ContextInit /\ [][ContextNext]_vars

\* -------------------------------------------- specification of the client
ApiInit ==
    /\ ChatIdle
    /\ WireIdle
    /\ ProcIdle
    /\ ComplIdle
    /\ CtxIdle
    /\ CmdIdle
    /\ apiReply \in Replies
    /\ genResult = Pending
    /\ probeReply \in ProbeOutcomes
    /\ healthy = "pending"
    /\ connected = "pending"

\* a call of generateCompletion and its outcome
GenerateCompletion ==
    /\ genResult = Pending
    /\ genResult' = generateCompletion(apiReply)
    /\ UNCHANGED << apiReply, probeReply, healthy, connected >>
    /\ UNCHANGED << chatVars, wireVars, procVars, complVars, ctxVars, cmdVars >>

\* a call of isHealthy and its outcome
IsHealthy ==
    /\ healthy = "pending"
    /\ healthy' = isHealthy(probeReply)
    /\ UNCHANGED << apiReply, genResult, probeReply, connected >>
    /\ UNCHANGED << chatVars, wireVars, procVars, complVars, ctxVars, cmdVars >>

\* a call of checkOllamaConnection and its outcome
CheckOllamaConnection ==
    /\ connected = "pending"
    /\ connected' = checkOllamaConnection(probeReply)
    /\ UNCHANGED << apiReply, genResult, probeReply, healthy >>
    /\ UNCHANGED << chatVars, wireVars, procVars, complVars, ctxVars, cmdVars >>

ApiNext ==
    \/ GenerateCompletion
    \/ IsHealthy
    \/ CheckOllamaConnection

ApiSpec == ApiInit /\ [][ApiNext]_vars

\* ------------------- specification of the operations outside the chat
\* the chat session after two exchanges, one after the other, each with one
\* 'data' event of two fragments, under the bound 0
AfterTwoExchanges ==
    /\ chatHistory = << Msg("user", <<"a">>, 1),
                        Msg("assistant", <<"x", "y">>, 1),
                        Msg("user", <<"a">>, 2),
                        Msg("assistant", <<"x", "y">>, 2) >>
    /\ maxHistory = 0
    /\ typing = FALSE
    /\ nextEx = 2
    /\ pc = [e \in Exchanges |-> IF e <= 2 THEN "ended" ELSE "new"]
    /\ assistantMessage = [e \in Exchanges |-> <<>>]
    /\ messages = [e \in Exchanges |-> <<>>]
    /\ delivered = [e \in Exchanges |-> <<>>]
    /\ chunksSeen = [e \in Exchanges |-> 0]
    /\ contended = [e \in Exchanges |-> FALSE]
    /\ plain = TRUE
    /\ sinceClear = FALSE
    /\ wiped = [e \in Exchanges |-> FALSE]
    /\ shown = chatHistory
    /\ posts = 0
    /\ posted = [e \in Exchanges |-> <<>>]

OtherInit ==
    /\ AfterTwoExchanges
    /\ WireIdle
    /\ ProcIdle
    /\ CtxIdle
    /\ ApiIdle
    /\ CmdIdle
    /\ isEnabled \in BOOLEAN
    /\ curLine = <<>>
    /\ curChar = 0
    /\ compPhase = "idle"
    /\ cancelRequested = FALSE
    /\ requested = 0
    /\ reply = "none"
    /\ compResult = Pending

\* setModel of the model manager: the setting ollama.model is written and
\* the configuration listeners run; the chat provider reads back its own
\* setting, which has not changed
SelectModel == UpdateConfig(maxHistory)

\* sendToChat of explainCode, improveCode, generateDocstring and
\* askQuestion: the chat view is opened and the prompt offered for
\* copying; no method of the chat provider is called
SendToChat == UNCHANGED vars

OtherNext ==
    \/ \E enabled \in BOOLEAN : SetEnabled(enabled)
    \/ \E line \in LineTexts : \E character \in 0..Len(line) :
           Trigger(line, character)
    \/ Cancel
    \/ \E raw \in CompletionTexts : Respond(raw)
    \/ Fail
    \/ \E b \in 0..MaxBound : UpdateConfig(b)
    \/ SelectModel
    \/ SendToChat

OtherSpec == OtherInit /\ [][OtherNext]_vars

\* ------------------------- specification of the toggle and the setting
\* both constructors read the setting ollama.completions.enabled
ToggleInit ==
    /\ ChatIdle
    /\ WireIdle
    /\ ProcIdle
    /\ CtxIdle
    /\ ApiIdle
    /\ configEnabled \in BOOLEAN
    /\ completionsEnabled = configEnabled
    /\ isEnabled = configEnabled
    /\ curLine = <<>>
    /\ curChar = 0
    /\ compPhase = "idle"
    /\ cancelRequested = FALSE
    /\ requested = 0
    /\ reply = "none"
    /\ compResult = Pending

\* toggleCompletions: the command manager negates its own flag, hands it to
\* setEnabled and writes it to the setting; the provider's listener reads
\* the written value back
ToggleCompletions ==
    /\ completionsEnabled' = ~completionsEnabled
    /\ isEnabled' = completionsEnabled'
    /\ configEnabled' = completionsEnabled'
    /\ UNCHANGED << curLine, curChar, compPhase, cancelRequested, requested,
                    reply, compResult >>
    /\ UNCHANGED << chatVars, wireVars, procVars, ctxVars, apiVars >>

\* the setting is changed in the editor's settings: the provider's
\* listener runs updateConfig, the command manager has no listener
ConfigChange(enabled) ==
    /\ configEnabled' = enabled
    /\ isEnabled' = enabled
    /\ UNCHANGED completionsEnabled
    /\ UNCHANGED << curLine, curChar, compPhase, cancelRequested, requested,
                    reply, compResult >>
    /\ UNCHANGED << chatVars, wireVars, procVars, ctxVars, apiVars >>

ToggleNext ==
    \/ ToggleCompletions
    \/ \E enabled \in BOOLEAN : ConfigChange(enabled)
    \/ \E line \in LineTexts : \E character \in 0..Len(line) :
           Trigger(line, character)
    \/ Cancel
    \/ \E raw \in CompletionTexts : Respond(raw)
    \/ Fail

ToggleSpec == ToggleInit /\ [][ToggleNext]_vars

\* ---------------------------------------------------------- properties
\* this step handed at least one fragment of stream e to its callback
Fragment(e) == Len(delivered'[e]) > Len(delivered[e])

\* this step is the part of handleSendMessage(e) that runs before its await
Sent(e) == pc[e] = "new" /\ pc'[e] = "connecting"

\* the texts that pass the empty-text check, as stored in the user turn
UserContents == { Trim(t) : t \in Texts } \ { <<>> }

\* the identity of the turns of a history, in order
TurnIds(hist) == [i \in 1..Len(hist) |-> <<hist[i].role, hist[i].ex>>]

\* hist still holds the turn m
KeepsTurn(hist, m) ==
    \E j \in 1..Len(hist) : hist[j].role = m.role /\ hist[j].ex = m.ex

\* hist ends with the user turn of exchange e and an error turn
EndsWithUserAndError(hist, e) ==
    /\ Len(hist) >= 2
    /\ hist[Len(hist) - 1].role = "user"
    /\ hist[Len(hist) - 1].ex = e
    /\ hist[Len(hist)] = Msg("assistant", ErrorText, e)

\* C1: at any time at most one exchange is in flight (awaiting its response
\* or streaming); a send never runs concurrently with an earlier exchange.
AtMostOneInFlight == Cardinality(Live) <= 1

\* C2: once a newer exchange has begun, a fragment delivered by an older
\* stream changes nothing in the history.
SupersededFragmentsDiscarded ==
    [][\A e \in Exchanges :
          (e < nextEx /\ Fragment(e)) => chatHistory' = chatHistory]_vars

\* C3: after a clear() that followed the send, and until the next send,
\* every fragment a stream delivers leaves the history empty.
FragmentsAfterClearLeaveEmpty ==
    [][\A e \in Exchanges :
          (sinceClear /\ Fragment(e)) => chatHistory' = <<>>]_vars

\* C4: when an exchange fails, before or after fragments were applied, the
\* history ends with the user turn of the exchange and an error turn.
FailureReplacesPartialTurn ==
    [][\A e \in Exchanges :
          ((ConnectFail(e) \/ StreamError(e)) /\ ~contended[e])
              => EndsWithUserAndError(chatHistory', e)]_vars

\* C5: when a stream that nothing overlapped ends, the history ends with the
\* user turn of the exchange and an assistant turn whose content is the
\* concatenation, in arrival order, of all fragments the stream delivered.
UncontendedStreamConcatenates ==
    [][\A e \in Exchanges :
          (End(e) /\ ~contended[e]) =>
              /\ Len(chatHistory') >= 2
              /\ chatHistory'[Len(chatHistory')]
                     = Msg("assistant", Concat(delivered[e]), e)
              /\ chatHistory'[Len(chatHistory') - 1].role = "user"
              /\ chatHistory'[Len(chatHistory') - 1].ex = e
              /\ chatHistory'[Len(chatHistory') - 1].content \in UserContents
      ]_vars

\* C5 witness: an uncontended stream has ended after two data events that
\* delivered four fragments, and the assistant turn holds them in order.
UncontendedStreamEnded ==
    \E e \in Exchanges :
        /\ pc[e] = "ended"
        /\ ~contended[e]
        /\ Len(chatHistory) >= 2
        /\ chatHistory[Len(chatHistory)]
               = Msg("assistant", <<"x", "y", "x", "y">>, e)
        /\ chatHistory[Len(chatHistory) - 1] = Msg("user", <<"a">>, e)

\* C6: no fragment is delivered to the callback after the streamChat call
\* has resolved.
NoFragmentAfterResolve ==
    [][\A e \in Exchanges : Resolved(e) => ~Fragment(e)]_vars

\* C7: when an exchange completes (stream finished or failed), the history
\* holds at most 2 x maxHistory turns.
BoundedAfterExchange ==
    [][\A e \in Exchanges :
          (End(e) \/ StreamError(e) \/ ConnectFail(e))
              => Len(chatHistory') <= 2 * maxHistory']_vars

\* C8: after k sequential completed exchanges under a fixed bound b and no
\* clear(), the history is exactly the user and assistant turns of the last
\* min(k, b) exchanges, in chronological order.
EvictionKeepsMostRecent ==
    (plain /\ Live = {}) =>
        LET kept == Min(nextEx, maxHistory)
        IN  /\ Len(chatHistory) = 2 * kept
            /\ \A i \in 1..kept :
                  /\ chatHistory[2 * i - 1].role = "user"
                  /\ chatHistory[2 * i - 1].ex = nextEx - kept + i
                  /\ chatHistory[2 * i].role = "assistant"
                  /\ chatHistory[2 * i].ex = nextEx - kept + i

\* C9: between the eviction at the append of the user turn and the end of
\* the exchange no earlier turn is removed: not by the append of the
\* assistant placeholder, not by a fragment, not by the append of the error
\* turn.
NoEvictionMidExchange ==
    [][\A e \in Exchanges :
          /\ (Sent(e) /\ Live = {}) =>
                \A i \in 1..Len(messages'[e]) :
                    KeepsTurn(chatHistory', messages'[e][i])
          /\ Fragment(e) => TurnIds(chatHistory') = TurnIds(chatHistory)
          /\ (ConnectFail(e) /\ ~contended[e]) =>
                \A i \in 1..(Len(chatHistory) - 1) :
                    chatHistory[i] = chatHistory'[i]
      ]_vars

\* C10: when the append of the user turn evicts, the history and the message
\* list sent to the model do not begin with an assistant turn whose user
\* turn was evicted.
EvictionDropsPair ==
    [][\A e \in Exchanges :
          (/\ Sent(e)
           /\ Live = {}
           /\ Len(chatHistory) + 1 > 2 * maxHistory
           /\ chatHistory # <<>>
           /\ chatHistory[1].role = "user")
              => messages'[e][1].role # "assistant"]_vars

\* C11: when an exchange fails, its user turn is still in the history once
\* the failure has been handled, for every bound of at least one pair and
\* whatever other sends did meanwhile, as long as no clear() came in between.
FailureKeepsUserTurn ==
    [][\A e \in Exchanges :
          (/\ ConnectFail(e) \/ StreamError(e)
           /\ ~wiped[e]
           /\ maxHistory >= 1)
              => KeepsTurn(chatHistory', Msg("user", <<"a">>, e))]_vars

\* the lines of a response body: the texts its newlines terminate
BodyLines(bytes) ==
    LET texts == SplitOn(bytes, NL)
    IN  SubSeq(texts, 1, Len(texts) - 1)

\* the content of a line that is well formed and carries text, else <<>>
LineContent(text) ==
    IF ParseLine(text).kind = "ok" THEN ParseLine(text).content ELSE <<>>

\* the contents of the well-formed lines with text, in the order of the lines
RECURSIVE ContentsOf(_)
ContentsOf(texts) ==
    IF texts = <<>> THEN <<>>
    ELSE (IF LineContent(Head(texts)) # <<>>
          THEN <<LineContent(Head(texts))>> ELSE <<>>)
         \o ContentsOf(Tail(texts))

\* a is a subsequence of b
RECURSIVE IsSubseq(_, _)
IsSubseq(a, b) ==
    IF a = <<>> THEN TRUE
    ELSE IF b = <<>> THEN FALSE
    ELSE IF Head(a) = Head(b) THEN IsSubseq(Tail(a), Tail(b))
    ELSE IsSubseq(a, Tail(b))

\* C12: the fragments a stream delivers depend on its bytes alone: however
\* the body was cut into chunks, at its end streamChat has delivered what it
\* delivers when the body arrives as one chunk.
ChunkingDoesNotMatter ==
    wireState = "ended" => wireFrags = HandleChunk(wireBody, <<>>)

\* C13: onFragment is invoked exactly once for each well-formed line with
\* non-empty content, for no other line, in the order of the lines.
OncePerWellFormedLine ==
    wireState = "ended" => wireFrags = ContentsOf(BodyLines(wireBody))

\* C14: a malformed line costs nothing but itself: the well-formed lines
\* before and after it are all delivered, in order.
MalformedLineOnlyDropped ==
    (/\ wireState = "ended"
     /\ \E i \in 1..Len(BodyLines(wireBody)) :
            ParseLine(BodyLines(wireBody)[i]).kind = "bad")
        => IsSubseq(ContentsOf(BodyLines(wireBody)), wireFrags)

\* the text up to its first line end
FirstLine(text) ==
    IF \E i \in 1..Len(text) : text[i] = NL
    THEN SubSeq(text, 1, IndexOf(text, NL))
    ELSE text

\* the response without the code fences around it
Unfenced(raw) == StripCloseFence(StripOpenFence(Trim(raw)))

\* C18: a completion whose post-processed form (fences stripped, first line
\* only), once trimmed, equals the trimmed text already typed before the
\* cursor yields the empty suggestion.
EchoIsSuppressed ==
    (/\ procOut # Pending
     /\ procRaw # Undefined
     /\ Trim(FirstLine(Unfenced(procRaw))) = Trim(procPrefix))
        => procOut = <<>>

\* C18 witness: the fenced response FENCE "\nr\n" FENCE for the typed text " r "
\* was processed to the empty suggestion.
EchoWasSuppressed ==
    /\ procRaw = <<Tick, Tick, Tick, NL, "r", NL, Tick, Tick, Tick>>
    /\ procPrefix = <<" ", "r", " ">>
    /\ procOut = <<>>

CancelledYieldsNothing ==
    (compPhase = "returned" /\ cancelRequested) => compResult = NullResult

\* C16: a transport failure makes provideInlineCompletionItems return no
\* suggestion and never an error, cancelled or not.
TransportFailureYieldsNothing ==
    (compPhase = "returned" /\ reply = "error") => compResult = NullResult

\* C16 witness: the request of a trigger that was not cancelled failed and
\* the trigger returned.
UncancelledRequestFailed ==
    /\ compPhase = "returned"
    /\ reply = "error"
    /\ ~cancelRequested

\* the cursor is inside or directly after an identifier that started
\* before it
AfterIdentifier(line, character) ==
    character > 0 /\ IsWordChar(line[character])

\* the text before the cursor is empty or white space only
BlankBefore(line, character) ==
    \A i \in 1..character : line[i] = " "

\* C17: with completions disabled, or the cursor inside or directly after
\* an identifier that started before it, or nothing but white space before
\* the cursor, a trigger returns no suggestion and issues no request.
NothingToCompleteIssuesNoRequest ==
    [][(/\ compPhase = "idle"
        /\ compPhase' # "idle"
        /\ \/ ~isEnabled
           \/ AfterIdentifier(curLine', curChar')
           \/ BlankBefore(curLine', curChar'))
            => /\ compPhase' = "returned"
               /\ compResult' = NullResult
               /\ requested' = requested]_vars

\* C17 witness: an enabled trigger right after an identifier, with text
\* before the cursor, returned without a request.
ReturnedAfterIdentifier ==
    /\ compPhase = "returned"
    /\ isEnabled
    /\ AfterIdentifier(curLine, curChar)
    /\ ~BlankBefore(curLine, curChar)
    /\ requested = 0
    /\ compResult = NullResult

\* the characters of the document located after the cursor
AfterCursor ==
    { DocLine(i)[k] : i \in (posLine + 1)..(lineCount - 1),
                      k \in 1..Len(DocLine(0)) }
        \cup { DocLine(posLine)[k] : k \in (posChar + 1)..Len(DocLine(posLine)) }

\* the lines max(0, line-10) up to the cursor line, the last one cut at
\* the cursor column
PrefixWindow ==
    LET first == Max(0, posLine - ContextBefore)
    IN  [k \in 1..(posLine - first + 1) |->
            IF first + k - 1 = posLine THEN SubSeq(DocLine(posLine), 1, posChar)
            ELSE DocLine(first + k - 1)]

\* C20: the prefix window embedded in the prompt is exactly the lines from
\* max(0, line-10) up to the cursor line, the cursor line cut at the cursor
\* column; it holds no text located after the cursor.
PrefixWindowEndsAtCursor ==
    ctxPrompt # Pending =>
        /\ ctxPrompt = PromptHead \o JoinWith(PrefixWindow, NL) \o PromptFoot
        /\ \A k \in 1..Len(ctxPrompt) : ctxPrompt[k] \notin AfterCursor

\* the characters of the document located before the cursor
BeforeCursor ==
    { DocLine(i)[k] : i \in 0..(posLine - 1), k \in 1..Len(DocLine(0)) }
        \cup { DocLine(posLine)[k] : k \in 1..posChar }

\* the rest of the cursor line from the cursor column on, then the lines
\* line+1 up to min(lastLine, line+3)
SuffixWindow ==
    LET last == Min(lineCount - 1, posLine + SuffixAfter)
        rest == [k \in 1..(Len(DocLine(posLine)) - posChar) |->
                    DocLine(posLine)[posChar + k]]
    IN  << rest >> \o [k \in 1..(last - posLine) |-> DocLine(posLine + k)]

\* C21: the suffix window is the remainder of the cursor line from the
\* cursor column followed by the lines line+1 through min(lastLine, line+3),
\* and holds no text located before the cursor.
SuffixWindowIsExact ==
    ctxSuffix # Pending =>
        /\ ctxSuffix = JoinWith(SuffixWindow, NL)
        /\ \A k \in 1..Len(ctxSuffix) : ctxSuffix[k] \notin BeforeCursor

\* C21 amended: the suffix window is that text with the white space at its
\* two ends removed, and holds no text located before the cursor.
SuffixWindowIsTrimmed ==
    ctxSuffix # Pending =>
        /\ ctxSuffix = Trim(JoinWith(SuffixWindow, NL))
        /\ \A k \in 1..Len(ctxSuffix) : ctxSuffix[k] \notin BeforeCursor

\* C21 witness: a suffix was taken with the cursor at the end of its line,
\* after the start of the document and more than three lines before its end.
SuffixTakenAtLineEnd ==
    /\ ctxSuffix # Pending
    /\ posLine > 0
    /\ posChar = Len(DocLine(posLine))
    /\ posLine + SuffixAfter < lineCount - 1

\* C22: context extraction reads only line indices in [0, lastLine]: the
\* prefix window never starts before line 0 and the suffix window never
\* ends after the last line.
ReadsStayInDocument ==
    ctxPrompt # Pending =>
        /\ ctxReads # {}
        /\ \A i \in ctxReads : 0 <= i /\ i <= lineCount - 1

\* C22 witness: context was extracted with the cursor fewer than ten lines
\* from the start and fewer than three lines from the end of the document.
ExtractedNearBothEnds ==
    /\ ctxPrompt # Pending
    /\ posLine - ContextBefore < 0
    /\ posLine + SuffixAfter > lineCount - 1
    /\ lineCount > 1

\* C23: generateCompletion returns the response text of a well-formed
\* reply, and raises an error carrying the cause on every other outcome
\* (connection failure, timeout, a reply without a well-formed response
\* field); it never returns a missing or garbage value.
CompletionReturnsTextOrRaises ==
    genResult # Pending =>
        IF apiReply[1] = "object" /\ Len(apiReply) = 2
        THEN genResult = << "return", apiReply[2] >>
        ELSE genResult[1] = "throw"

\* C24: isHealthy never throws: it gives true when the probe succeeds and
\* false on every failure, and checkOllamaConnection gives the same boolean.
ProbeNeverThrows ==
    /\ healthy # "pending" =>
          healthy = (IF probeReply = "ok" THEN "true" ELSE "false")
    /\ connected # "pending" =>
          connected = (IF probeReply = "ok" THEN "true" ELSE "false")

\* C24 witness: the probe timed out, and isHealthy and
\* checkOllamaConnection both answered false.
ProbeTimedOut ==
    /\ probeReply = "timeout"
    /\ healthy = "false"
    /\ connected = "false"

\* a is the end of b
IsSuffix(a, b) ==
    /\ Len(a) <= Len(b)
    /\ a = SubSeq(b, Len(b) - Len(a) + 1, Len(b))

\* the message list of a request stays as it is while the request is out
MessagesKept(e) ==
    (pc[e] = "connecting" /\ pc'[e] = "connecting")
        => messages'[e] = messages[e]

\* C25: the message list passed to streamChat is exactly the history at the
\* time the stream is invoked, and later mutations of the history do not
\* alter it.
MessagesAreHistoryAtInvocation ==
    [][\A e \in Exchanges :
          /\ Sent(e) => messages'[e] = chatHistory'
          /\ MessagesKept(e)]_vars

\* C25 amended: the message list is the history as it stands after the user
\* turn is appended and before the assistant placeholder is: it ends with
\* the user turn, before it come the most recent earlier turns unchanged and
\* in order, the history at the invocation is the end of the list followed
\* by the placeholder, and later mutations of the history do not alter it.
MessagesAreHistoryBeforePlaceholder ==
    [][\A e \in Exchanges :
          /\ Sent(e) =>
                /\ messages'[e] # <<>>
                /\ messages'[e][Len(messages'[e])] = Msg("user", <<"a">>, e)
                /\ IsSuffix(Pop(messages'[e]), chatHistory)
                /\ chatHistory' # <<>>
                /\ chatHistory'[Len(chatHistory')] = Msg("assistant", <<>>, e)
                /\ IsSuffix(Pop(chatHistory'), messages'[e])
          /\ MessagesKept(e)]_vars

\* C25 witness: a request is out whose message list begins with the
\* assistant turn of the exchange before and ends with its own user turn.
RequestCarriesEarlierTurn ==
    \E e \in Exchanges :
        /\ pc[e] = "connecting"
        /\ Len(messages[e]) = 2
        /\ messages[e][1].role = "assistant"
        /\ messages[e][2] = Msg("user", <<"a">>, e)

\* C26: during an exchange that nothing overlaps, the webview is notified
\* once per fragment with the updated history, and the assistant content of
\* the k-th notification is the concatenation of the first k fragments.
NotifiedOncePerFragment ==
    [][\A e \in Exchanges :
          (Fragment(e) /\ ~contended[e]) =>
              /\ posts' = Len(delivered'[e]) - Len(delivered[e])
              /\ Len(posted'[e]) = Len(delivered'[e])
              /\ \A k \in 1..Len(posted'[e]) :
                    posted'[e][k] =
                        Msg("assistant",
                            Concat(SubSeq(delivered'[e], 1, k)), e)
              /\ shown' = chatHistory'
              /\ LastTurn(shown') = posted'[e][Len(posted'[e])]]_vars

\* C26 witness: a stream that nothing overlapped has delivered at least
\* three fragments, each of them posted.
ThreeFragmentsPosted ==
    \E e \in Exchanges :
        /\ pc[e] = "streaming"
        /\ ~contended[e]
        /\ Len(delivered[e]) >= 3
        /\ Len(posted[e]) = Len(delivered[e])

\* the exchanges in flight after the step
LiveAfter == { e \in Exchanges : pc'[e] \in {"connecting", "streaming"} }

\* C27: a send whose text is empty after trimming changes nothing: not the
\* history, the typing flag or the exchanges in flight; it notifies nobody
\* and issues no request.
BlankSendIsNoOp ==
    [][\A text \in Texts :
          (Trim(text) = <<>> /\ (SendEmpty(text) \/ Send(text))) =>
              /\ chatHistory' = chatHistory
              /\ typing' = typing
              /\ LiveAfter = Live
              /\ posts' = 0
              /\ shown' = shown
              /\ nextEx' = nextEx
              /\ messages' = messages]_vars

\* C27 witness: with a request out and the typing indicator on, a step was
\* taken that notified nobody.
QuietStepWhileTyping ==
    /\ nextEx = 1
    /\ pc[1] = "connecting"
    /\ typing
    /\ plain
    /\ posts = 0

\* C28: clear() leaves the history empty, whatever the session is doing,
\* and notifies the webview with the empty history.
ClearEmptiesAndNotifies ==
    [][ClearChat =>
          /\ chatHistory' = <<>>
          /\ shown' = <<>>
          /\ posts' = 1]_vars

\* C28 witness: the history was cleared while a stream that had delivered
\* fragments was open, and the webview was sent the empty history.
ClearedWhileStreaming ==
    \E e \in Exchanges :
        /\ pc[e] = "streaming"
        /\ delivered[e] # <<>>
        /\ wiped[e]
        /\ sinceClear
        /\ chatHistory = <<>>
        /\ shown = <<>>
        /\ posts = 1

\* C29: every send that passes the empty-text check eventually returns the
\* session to idle, whether its stream completes or fails: no exchange is
\* in flight, the typing flag is cleared and the webview shows the history.
SendReturnsToIdle ==
    (Live # {}) ~> (Live = {} /\ ~typing /\ shown = chatHistory)

\* C29 witness: an exchange failed, the typing flag is off and the webview
\* shows the history with its error turn.
FailedAndIdle ==
    \E e \in Exchanges :
        /\ pc[e] = "failed"
        /\ Live = {}
        /\ ~typing
        /\ shown = chatHistory
        /\ LastTurn(chatHistory) = Msg("assistant", ErrorText, e)

\* C30: the history is changed only by the chat session's own operations:
\* completion triggers, configuration changes, model selection and the
\* explain, improve, document and ask commands leave it as it is.
OthersLeaveHistoryAlone == [][chatHistory' = chatHistory]_vars

\* C30 witness: with four turns in the history, the bound was changed to a
\* value the history exceeds and a completion was returned.
BoundLoweredWithFullHistory ==
    /\ Len(chatHistory) = 4
    /\ maxHistory = 1
    /\ compPhase = "returned"
    /\ compResult # NullResult

\* C31: every Toggle Code Completions command inverts the provider's
\* enabled state, after any sequence of toggles and changes of the setting.
ToggleInvertsProvider ==
    [][ToggleCompletions => (isEnabled' = ~isEnabled)]_vars

\* the turns of a history that belong to exchanges other than e, in order
TurnsOfOthers(hist, e) == SelectSeq(hist, LAMBDA m : m.ex # e)

\* C32: when a send fails while another is in flight, the failure handler
\* removes no turn of another exchange and changes none: what the history
\* holds of the other exchanges afterwards is what it held before, less
\* what the bound evicted from the front.
FailureSparesOtherExchange ==
    [][\A e \in Exchanges :
          (ConnectFail(e) /\ Live \ {e} # {})
              => IsSuffix(TurnsOfOthers(chatHistory', e),
                          TurnsOfOthers(chatHistory, e))]_vars

\* C33: when the history was cleared while an exchange was in flight and
\* nothing was sent since, the failure of that exchange adds no turn: the
\* history is empty after the failure handling.
FailureAfterClearAddsNothing ==
    [][\A e \in Exchanges :
          (ConnectFail(e) /\ wiped[e] /\ sinceClear)
              => chatHistory' = <<>>]_vars

\* C34: the content of a user turn never changes once the turn is in the
\* history: whatever step is taken, a user turn that is still in the history
\* afterwards has the content it had before.
UserTurnsNeverRewritten ==
    [][\A i \in 1..Len(chatHistory), j \in 1..Len(chatHistory') :
          (/\ chatHistory[i].role = "user"
           /\ chatHistory'[j].role = "user"
           /\ chatHistory'[j].ex = chatHistory[i].ex)
              => chatHistory'[j].content = chatHistory[i].content]_vars

\* C34 witness: two sends overlapped, one of them failed and the other has
\* had fragments applied, with a user turn in the history.
FragmentsBesideFailure ==
    \E e1, e2 \in Exchanges :
        /\ pc[e1] = "failed"
        /\ pc[e2] = "streaming"
        /\ contended[e2]
        /\ delivered[e2] # <<>>
        /\ \E i \in 1..Len(chatHistory) : chatHistory[i].role = "user"

\* C35: the typing flag is on exactly while some exchange is in flight,
\* awaiting its response or delivering fragments.
TypingExactlyWhileInFlight == typing <=> (Live # {})

\* C36: with the bound 0, addMessageToHistory retains no turn: after every
\* step that appends to the history (a send, a failure) the history is empty.
BoundZeroRetainsNothing ==
    [][\A e \in Exchanges :
          (maxHistory = 0 /\ (Sent(e) \/ ConnectFail(e)))
              => chatHistory' = <<>>]_vars

\* the role of the turn at the 0-based index i of a history of pairs
PairRole(i) == IF i % 2 = 0 THEN "user" ELSE "assistant"

\* C37: whenever no exchange is in flight the history is a sequence of
\* complete pairs: its length is even and user and assistant turns
\* alternate, starting with a user turn.
IdleHistoryIsPairs ==
    (Live = {}) =>
        /\ Len(chatHistory) % 2 = 0
        /\ \A i \in 1..Len(chatHistory) :
               chatHistory[i].role = PairRole(i - 1)

\* a text that is empty or holds white space only
IsBlank(text) == Trim(text) = <<>>

\* C38: a trigger never returns a suggestion whose text is empty or white
\* space only. Whatever way the trigger returns, it returns either no
\* suggestion or one item with a non-blank text and an empty range at the
\* cursor; when the request was answered, it returns no suggestion exactly
\* when the post-processed completion is blank, and otherwise the item
\* holds the post-processed completion.
NoBlankSuggestion ==
    [][(compPhase # "returned" /\ compPhase' = "returned") =>
          /\ \/ compResult' = NullResult
             \/ /\ Len(compResult') = 4
                /\ compResult'[1] = "item"
                /\ ~IsBlank(compResult'[2])
                /\ compResult'[3] = curChar'
                /\ compResult'[4] = curChar'
          /\ \A raw \in CompletionTexts :
                Respond(raw) =>
                    LET processed == processCompletion(
                                         raw, SubSeq(curLine, 1, curChar))
                    IN  /\ (compResult' = NullResult) <=> IsBlank(processed)
                        /\ (compResult' # NullResult)
                               => compResult'[2] = processed]_vars

\* C38 witness: the request of a trigger away from the start of the line
\* was answered and the trigger returned an item holding the completion.
ItemReturnedAtCursor ==
    /\ compPhase = "returned"
    /\ reply = "ok"
    /\ curChar > 1
    /\ compResult # NullResult
    /\ compResult[2] = <<"x">>

====
